---- MODULE Spec2Model ----
(***************************************************************************)
(* A model of neuroanalysis/miesnwb.py: the lab-notebook decoder           *)
(* (MiesNwb.notebook), the lazily built sweep list (MiesNwb.contents), the *)
(* recordings and traces hanging off it, and the handle life cycle of the  *)
(* experiment (open / close).                                              *)
(*                                                                         *)
(* Conventions.  Python index j of a field (row) is index j+1 here, since  *)
(* TLA+ sequences start at 1; columns keep their Python numbers 0..8.      *)
(* A Python attribute that is None or an object is the empty sequence <<>> *)
(* or a one-element sequence <<object>>.                                   *)
(***************************************************************************)
EXTENDS Integers, Sequences, FiniteSets, TLC

VARIABLES
    nb_keys,        \* general/labnotebook/<device>/numericalKeys[0]
    nb,             \* general/labnotebook/<device>/numericalValues
    acquisition,    \* the groups of acquisition/timeseries
    stimulus,       \* the groups of stimulus/presentation
    hdf,            \* MiesNwb.hdf: "None" or "File"
    _notebook,      \* MiesNwb._notebook
    _sweeps,        \* MiesNwb._sweeps
    recs,           \* the MiesRecording objects reachable from _sweeps
    groups_valid,   \* whether the h5py groups held by the recordings are still open
    pc,             \* where notebook() stands: "idle", "loop", "done"
    i,              \* the record the loop of notebook() looks at next
    nb_entries,     \* the OrderedDict nb_entries of notebook()
    merged,         \* history: the records that reached the merge of line 68, in order
    computed,       \* history: how often each lazy slot was computed to the end
    last            \* the call that just returned or raised, and what it gave

vars == <<nb_keys, nb, acquisition, stimulus, hdf, _notebook, _sweeps, recs,
          groups_valid, pc, i, nb_entries, merged, computed, last>>

fileVars == <<nb_keys, nb, acquisition, stimulus>>
loopVars == <<pc, i, nb_entries, merged>>
objVars  == <<hdf, _sweeps, recs, groups_valid>>

(***************************************************************************)
(* Values of the numeric table.  Finite numbers are the naturals; the two  *)
(* IEEE specials the code tests for are NaN and Inf.  PyNone is Python's   *)
(* None inside the decoded mappings.                                       *)
(***************************************************************************)
NaN == -1
Inf == -2
PyNone == -3

isnan(v) == v = NaN
isfinite(v) == v # NaN /\ v # Inf

GlobalCol == 8
FirstFields == 4

Range(s) == {s[k] : k \in DOMAIN s}

Max(S) == CHOOSE m \in S : \A n \in S : n <= m

(***************************************************************************)
(* Field names (numericalKeys).  KeysOld is a notebook written before       *)
(* EntrySourceType existed, KeysNew one that has it.                       *)
(***************************************************************************)
KeysOld ==
    << "SweepNum", "TimeStamp", "TimeStampSinceIgorEpochUTC", "DAC",
       "Clamp Mode", "TP Peak Resistance", "TP Pulse Duration", "Async AD 0" >>

KeysNew == KeysOld \o << "EntrySourceType" >>

\* a notebook that also has every field MiesRecording reads
KeysFull ==
    KeysNew \o
    << "TP Insert Checkbox", "TP Baseline Fraction", "TP Amplitude VC",
       "TP Amplitude IC", "V-Clamp Holding Level", "I-Clamp Holding Level",
       "Bridge Bal Enable", "Bridge Bal Value", "LPF Cutoff", "Pipette Offset" >>

\* k.startswith('Async AD '), over the names above
StartsWithAsyncAD(k) == k \in {"Async AD 0"}

\* nb_fields = OrderedDict([(k, i) for i,k in enumerate(nb_keys)]): the last
\* position of a name wins.  0 stands for "not a key".
nb_fields(keys, name) ==
    LET at == {k \in DOMAIN keys : keys[k] = name}
    IN  IF at = {} THEN 0 ELSE Max(at)

Cols(rec) == DOMAIN rec[1]

\* any(np.isfinite(row))
AnyFinite(row) == \E c \in DOMAIN row : isfinite(row[c])

(***************************************************************************)
(* OrderedDict: the keys in insertion order, and the values.               *)
(***************************************************************************)
OD_Empty == [keys |-> <<>>, val |-> [k \in {} |-> 0]]

OD_Has(d, k) == k \in Range(d.keys)

OD_SetSorted(d, k, v) ==
    [keys |-> IF OD_Has(d, k) THEN d.keys
              ELSE SelectSeq(d.keys, LAMBDA x : x < k) \o <<k>> \o
                   SelectSeq(d.keys, LAMBDA x : x > k),
     val  |-> [x \in Range(d.keys) \cup {k} |-> IF x = k THEN v ELSE d.val[x]]]

\* d[k] = v: a new key goes last, a known key keeps its place
OD_Set(d, k, v) ==
    [keys |-> IF OD_Has(d, k) THEN d.keys ELSE Append(d.keys, k),
     val  |-> [x \in Range(d.keys) \cup {k} |-> IF x = k THEN v ELSE d.val[x]]]

(***************************************************************************)
(* notebook(), lines 43-74: one iteration of the record loop.              *)
(***************************************************************************)

\* the heuristic without the test of line 57 that record n is not the last: a
\* last record with a finite peak is discarded for it
ClassifyLastToo(keys, table, n) ==
    LET rec  == table[n]
        est  == nb_fields(keys, "EntrySourceType")
        peak == nb_fields(keys, "TP Peak Resistance")
        dur  == nb_fields(keys, "TP Pulse Duration")
    IN  IF isnan(rec[1][0]) THEN "nosweep"
        ELSE IF est # 0 /\ ~isnan(rec[est][0])
             THEN (IF rec[est][0] # 0 THEN "tp_source" ELSE "merge")
        ELSE IF peak = 0 THEN "KeyError"
        ELSE IF AnyFinite(rec[peak])
             THEN (IF dur = 0 THEN "KeyError"
                   ELSE IF n = Len(table) THEN "tp_source"
                   ELSE IF AnyFinite(table[n+1][dur]) THEN "tp_block"
                   ELSE "merge")
        ELSE "merge"

\* What lines 46-66 decide for record n (1-based) of the table:
\*   "nosweep"  line 50, "tp_source" line 56, "tp_block" lines 65-66 (the
\*   next record is consumed too), "KeyError" lines 61/63, "merge" line 68;
\*   "IndexError" where the record has no row or column of the index used
\*   (lines 46, 54, 61, 63).
Classify(keys, table, n) ==
    LET rec  == table[n]
        est  == nb_fields(keys, "EntrySourceType")
        peak == nb_fields(keys, "TP Peak Resistance")
        dur  == nb_fields(keys, "TP Pulse Duration")
    IN  IF Len(rec) = 0 \/ 0 \notin Cols(rec) THEN "IndexError"
        ELSE IF isnan(rec[1][0]) THEN "nosweep"
        ELSE IF est > Len(rec) THEN "IndexError"
        ELSE IF est # 0 /\ ~isnan(rec[est][0])
             THEN (IF rec[est][0] # 0 THEN "tp_source" ELSE "merge")
        ELSE IF n < Len(table)
             THEN (IF peak = 0 THEN "KeyError"
                   ELSE IF peak > Len(rec) THEN "IndexError"
                   ELSE IF AnyFinite(rec[peak])
                        THEN (IF dur = 0 THEN "KeyError"
                              ELSE IF dur > Len(rec) THEN "IndexError"
                              ELSE IF AnyFinite(table[n+1][dur]) THEN "tp_block"
                              ELSE "merge")
                        ELSE "merge")
        ELSE "merge"

MergeRecordNaNOverwrites(entry, rec) == rec

\* lines 73-74: mask = ~np.isnan(rec); entry[mask] = rec[mask]
MergeRecord(entry, rec) ==
    [f \in DOMAIN entry |->
        [c \in DOMAIN entry[f] |->
            IF ~isnan(rec[f][c]) THEN rec[f][c] ELSE entry[f][c]]]

\* lines 68-74
MergeInto(entries, rec) ==
    LET sweep_num == rec[1][0]      \* int(sweep_num)
    IN  IF ~OD_Has(entries, sweep_num)
        THEN OD_Set(entries, sweep_num, rec)
        ELSE OD_Set(entries, sweep_num, MergeRecord(entries.val[sweep_num], rec))

\* the loop body without the continue of line 56: a record excluded by its source
\* type is merged all the same
LoopStepKeepsExcluded(keys, table, st) ==
    LET what == Classify(keys, table, st.i)
    IN  CASE what = "nosweep"   -> [st EXCEPT !.i = @ + 1]
          [] what = "tp_block"  -> [st EXCEPT !.i = @ + 2]
          [] what \in {"KeyError", "IndexError"} -> [st EXCEPT !.err = what]
          [] OTHER              -> [st EXCEPT !.i = @ + 1,
                                              !.entries = MergeInto(@, table[st.i]),
                                              !.merged = Append(@, st.i)]

\* One pass of the body of "for i in nb_iter" on the loop state
\* st = [i, entries, merged, err].
LoopStep(keys, table, st) ==
    LET what == Classify(keys, table, st.i)
    IN  CASE what = "nosweep"   -> [st EXCEPT !.i = @ + 1]
          [] what = "tp_source" -> [st EXCEPT !.i = @ + 1]
          [] what = "tp_block"  -> [st EXCEPT !.i = @ + 2]
          [] what \in {"KeyError", "IndexError"} -> [st EXCEPT !.err = what]
          [] OTHER              -> [st EXCEPT !.i = @ + 1,
                                              !.entries = MergeInto(@, table[st.i]),
                                              !.merged = Append(@, st.i)]

LoopStart == [i |-> 1, entries |-> OD_Empty, merged |-> <<>>, err |-> "none"]

RECURSIVE RunLoop(_, _, _)
RunLoop(keys, table, st) ==
    IF st.err # "none" \/ st.i > Len(table) THEN st
    ELSE RunLoop(keys, table, LoopStep(keys, table, st))

(***************************************************************************)
(* notebook(), lines 76-97: the pass over the merged entries.              *)
(***************************************************************************)

GlobalPropagateFillOnly(entry) ==
    [f \in DOMAIN entry |->
        [c \in DOMAIN entry[f] |->
            IF ~isnan(entry[f][GlobalCol]) /\ isnan(entry[f][c])
            THEN entry[f][GlobalCol] ELSE entry[f][c]]]

\* lines 78-79: mask = ~np.isnan(entry[:,8]); entry[mask] = entry[:,8:9][mask]
GlobalPropagate(entry) ==
    [f \in DOMAIN entry |->
        [c \in DOMAIN entry[f] |->
            IF ~isnan(entry[f][GlobalCol]) THEN entry[f][GlobalCol] ELSE entry[f][c]]]

FirstFieldsBroadcastSkipped(entry) == entry

\* line 82: entry[:4] = entry[:4, 0:1]
FirstFieldsBroadcast(entry) ==
    [f \in DOMAIN entry |->
        [c \in DOMAIN entry[f] |->
            IF f <= FirstFields THEN entry[f][0] ELSE entry[f][c]]]

\* lines 87-90: every row whose key starts with 'Async AD ' takes column 0
AsyncBroadcast(keys, entry) ==
    [f \in DOMAIN entry |->
        [c \in DOMAIN entry[f] |->
            IF f \in DOMAIN keys /\ StartsWithAsyncAD(keys[f])
            THEN entry[f][0] ELSE entry[f][c]]]

\* lines 93-96: one mapping per column of the entry, NaN becoming None; a name
\* that occurs twice keeps its last row
ToMeta(keys, entry) ==
    [c \in Cols(entry) |->
        [k \in Range(keys) |->
            LET v == entry[nb_fields(keys, k)][c]
            IN  IF isnan(v) THEN PyNone ELSE v]]

\* lines 76-97, for one entry
PostProcess(keys, entry) ==
    ToMeta(keys, AsyncBroadcast(keys, FirstFieldsBroadcast(GlobalPropagate(entry))))

\* lines 76-99: every value replaced in place, the keys keeping their order
Finish(keys, entries) ==
    [keys |-> entries.keys,
     val  |-> [s \in Range(entries.keys) |-> PostProcess(keys, entries.val[s])]]

\* what lines 76-97 raise on the merged entries, which all have the shape of the
\* table's records: entry[:,8] (line 78) without a column 8, entry[i] (line 90)
\* and tm[j] (line 96) without a row for the name; "none" with no entry at all
PostError(keys, entries) ==
    IF entries.keys = <<>> THEN "none"
    ELSE LET entry == entries.val[entries.keys[1]]
         IN  IF GlobalCol \notin Cols(entry) THEN "IndexError"
             ELSE IF Len(keys) > Len(entry) THEN "IndexError"
             ELSE "none"

\* lines 32-99 as a whole: [err, nb]
Decode(keys, table) ==
    LET st == RunLoop(keys, table, LoopStart)
    IN  IF st.err # "none" THEN [err |-> st.err, nb |-> OD_Empty]
        ELSE IF PostError(keys, st.entries) # "none"
        THEN [err |-> PostError(keys, st.entries), nb |-> OD_Empty]
        ELSE [err |-> "none", nb |-> Finish(keys, st.entries)]

(***************************************************************************)
(* Inputs: raw tables built from a few cells per record, every other cell  *)
(* NaN.  A cell is <<field name, column, value>>.                          *)
(***************************************************************************)
MakeRec(keys, cells) ==
    [f \in DOMAIN keys |->
        [c \in 0..GlobalCol |->
            IF \E t \in cells : t[1] = keys[f] /\ t[2] = c
            THEN (CHOOSE t \in cells : t[1] = keys[f] /\ t[2] = c)[3]
            ELSE NaN]]

MaxRecsMerge == 3
MaxRecsPost == 2
MaxRecsTP == 3

\* records of sweeps 1 and 2, kept (source type 0) or dropped (1), that differ in
\* one per-channel cell
MergeRecs ==
    {MakeRec(KeysNew, {<<"SweepNum", 0, s>>, <<"EntrySourceType", 0, e>>,
                       <<"Clamp Mode", 1, a>>}) :
        s \in {1, 2}, e \in {0, 1}, a \in {NaN, 0, 1}}

\* records of sweeps 1 and 2 that fill columns 0, 2 and 8 of one row
PostRecs ==
    {MakeRec(KeysNew, {<<"SweepNum", 0, s>>} \cup
                      {<<row, 0, v0>>, <<row, 2, 2>>, <<row, GlobalCol, v8>>}) :
        s \in {1, 2}, row \in {"DAC", "Clamp Mode", "Async AD 0"},
        v0 \in {NaN, 1}, v8 \in {NaN, 3}}

\* records that differ in what the test-pulse classification reads
TPRecsOld ==
    {MakeRec(KeysOld, {<<"SweepNum", 0, s>>, <<"TP Peak Resistance", 1, p>>,
                       <<"TP Pulse Duration", 0, d>>}) :
        s \in {NaN, 1, 2}, p \in {NaN, Inf, 5}, d \in {NaN, 7}}

TPRecsNew ==
    {MakeRec(KeysNew, {<<"SweepNum", 0, s>>, <<"EntrySourceType", 0, e>>,
                       <<"TP Peak Resistance", 1, p>>, <<"TP Pulse Duration", 0, d>>}) :
        s \in {NaN, 1}, e \in {NaN, 0, 1}, p \in {NaN, 5}, d \in {NaN, 7}}

\* op: the call; target: the recording (and channel) it was made on; result: "ok"
\* or the exception; read: whether the call read from the container; ret: what it
\* returned
Outcome(op, target, result, read, ret) ==
    [op |-> op, target |-> target, result |-> result, read |-> read, ret |-> ret]

NoOp == Outcome("none", <<>>, "ok", FALSE, <<>>)

InitObjects ==
    /\ hdf = "File"
    /\ _notebook = <<>>
    /\ _sweeps = <<>>
    /\ recs = <<>>
    /\ groups_valid = TRUE
    /\ i = 1
    /\ nb_entries = OD_Empty
    /\ merged = <<>>
    /\ computed = [slot \in {} |-> 0]
    /\ last = NoOp

\* notebook() has just been entered on a fresh experiment (line 32 passed)
InitDecoder(keys, table) ==
    /\ InitObjects
    /\ pc = "loop"
    /\ nb_keys = keys
    /\ nb = table
    /\ acquisition = {}
    /\ stimulus = {}

InitMerge ==
    \E n \in 1..MaxRecsMerge : \E table \in [1..n -> MergeRecs] :
        InitDecoder(KeysNew, table)

InitPost ==
    \E n \in 1..MaxRecsPost : \E table \in [1..n -> PostRecs] :
        InitDecoder(KeysNew, table)

InitTP ==
    \E n \in 1..MaxRecsTP :
        \/ \E table \in [1..n -> TPRecsOld] : InitDecoder(KeysOld, table)
        \/ \E table \in [1..n -> TPRecsNew] : InitDecoder(KeysNew, table)

(***************************************************************************)
(* notebook() run one loop iteration at a time.                            *)
(***************************************************************************)
LoopState == [i |-> i, entries |-> nb_entries, merged |-> merged, err |-> "none"]

\* lines 44-74: the body of the loop, for record i
NbIterate ==
    /\ pc = "loop"
    /\ i <= Len(nb)
    /\ LET st == LoopStep(nb_keys, nb, LoopState)
       IN  /\ i' = st.i
           /\ nb_entries' = st.entries
           /\ merged' = st.merged
           /\ pc' = IF st.err = "none" THEN "loop" ELSE "raised"
           /\ last' = IF st.err = "none" THEN last
                      ELSE Outcome("notebook", <<>>, st.err, TRUE, <<>>)
    /\ UNCHANGED <<fileVars, objVars, _notebook, computed>>

\* lines 76-100: the loop is exhausted; the entries are post-processed and cached.
\* nb_entries keeps the merged matrices as they were when the loop ended.
NbFinish ==
    /\ pc = "loop"
    /\ i > Len(nb)
    /\ _notebook' = << Finish(nb_keys, nb_entries) >>
    /\ pc' = "done"
    /\ computed' = [slot \in {<<"notebook">>} |-> 1]
    /\ last' = Outcome("notebook", <<>>, "ok", TRUE, _notebook')
    /\ UNCHANGED <<fileVars, objVars, i, nb_entries, merged>>

NextNb == NbIterate \/ NbFinish

SpecMerge == InitMerge /\ [][NextNb]_vars
SpecPost == InitPost /\ [][NextNb]_vars
SpecTP == InitTP /\ [][NextNb]_vars

(***************************************************************************)
(* The container's acquisition and stimulus groups.                        *)
(*   acquisition/timeseries/data_<sweep>_AD<ad>: [sweep, ad, hs, dt, raw]  *)
(*     hs is the number in electrode_name, dt is IGORWaveScaling[1,0] in   *)
(*     microseconds, raw stands for the sample array 'data'                *)
(*   stimulus/presentation/data_<sweep>_DA<da>: [sweep, da, elec, raw]     *)
(***************************************************************************)

\* the decimal digits of n
RECURSIVE Digits(_)
Digits(n) == IF n < 10 THEN <<n>> ELSE Append(Digits(n \div 10), n % 10)

\* '%05d' % n, as its digits
SweepStr(n) ==
    LET d == Digits(n)
    IN  IF Len(d) >= 5 THEN d
        ELSE [k \in 1..5 |-> IF k <= 5 - Len(d) THEN 0 ELSE d[k - (5 - Len(d))]]

\* a < b for Python strings of digits
StrLess(a, b) ==
    \/ \E k \in 1..Len(a) :
         /\ k <= Len(b)
         /\ \A j \in 1..(k - 1) : a[j] = b[j]
         /\ a[k] < b[k]
    \/ /\ Len(a) < Len(b)
       /\ \A j \in 1..Len(a) : a[j] = b[j]

\* sorted(S) for a set of numbers
RECURSIVE SortedInts(_)
SortedInts(S) ==
    IF S = {} THEN <<>>
    ELSE LET m == CHOOSE x \in S : \A y \in S : x <= y
         IN  <<m>> \o SortedInts(S \ {m})

\* sorted(S) for a set of sweep-id strings, each given by its number
RECURSIVE SortedSweepStrs(_)
SortedSweepStrs(S) ==
    IF S = {} THEN <<>>
    ELSE LET m == CHOOSE x \in S : \A y \in S \ {x} : StrLess(SweepStr(x), SweepStr(y))
         IN  <<m>> \o SortedSweepStrs(S \ {m})

\* lines 107-111: the sweep ids found in the dataset names, sorted as strings
SweepIds(acq) == SortedSweepStrs({a.sweep : a \in acq})

\* lines 359-364: the A/D channels of a sweep, sorted as numbers
AdChannels(acq, sweep_id) == SortedInts({a.ad : a \in {b \in acq : b.sweep = sweep_id}})

AcqGroup(acq, sweep_id, ad) == CHOOSE a \in acq : a.sweep = sweep_id /\ a.ad = ad

(***************************************************************************)
(* MiesRecording.__init__ and MiesSyncRecording.__init__                   *)
(***************************************************************************)

\* the fields lines 254-263 look up in the notebook mapping
InitFields ==
    {"V-Clamp Holding Level", "I-Clamp Holding Level", "Clamp Mode", "LPF Cutoff",
     "Pipette Offset"}

\* lines 257-260 and 270: 'vc' if nb['Clamp Mode'] == 0 else 'ic'
ClampMode(nbmap) == IF nbmap["Clamp Mode"] = 0 THEN "vc" ELSE "ic"

\* what MiesRecording.__init__ raises for acquisition group a, "none" when it returns
RecordingInitError(notebook, a) ==
    IF ~OD_Has(notebook, a.sweep) THEN "KeyError"                      \* line 252
    ELSE IF a.hs \notin DOMAIN notebook.val[a.sweep] THEN "IndexError"  \* line 252
    ELSE LET m == notebook.val[a.sweep][a.hs]
         IN  IF \E k \in InitFields : k \notin DOMAIN m THEN "KeyError"
             ELSE IF /\ ClampMode(m) = "ic"                              \* line 261
                     /\ "Bridge Bal Enable" \notin DOMAIN m
                  THEN "KeyError"
             ELSE IF /\ ClampMode(m) = "ic"
                     /\ m["Bridge Bal Enable"] # 0
                     /\ "Bridge Bal Value" \notin DOMAIN m
                  THEN "KeyError"
             ELSE IF /\ ClampMode(m) = "ic"
                     /\ m["Bridge Bal Enable"] # 0
                     /\ m["Bridge Bal Value"] = PyNone
                  THEN "TypeError"
             ELSE IF m["Pipette Offset"] = PyNone THEN "TypeError"       \* line 263
             ELSE "none"

\* lines 238-266: the recording object, its lazy slots empty
RecordingInit(notebook, a) ==
    LET m == notebook.val[a.sweep][a.hs]
    IN  [device_id |-> a.hs,
         dt |-> a.dt,
         notebook |-> m,
         clamp_mode |-> ClampMode(m),
         _da_chan |-> <<>>,
         _inserted_test_pulse |-> <<>>,
         primary |-> <<>>,
         command |-> <<>>]

\* the acquisition groups in the order contents constructs their recordings
RECURSIVE BuildOrder(_, _)
BuildOrder(acq, sweep_ids) ==
    IF sweep_ids = <<>> THEN <<>>
    ELSE LET chans == AdChannels(acq, Head(sweep_ids))
         IN  [k \in DOMAIN chans |-> AcqGroup(acq, Head(sweep_ids), chans[k])]
             \o BuildOrder(acq, Tail(sweep_ids))

\* the first channel of a headstage kept in place of the last
RECURSIVE DevsFirstWins(_, _, _)
DevsFirstWins(acq, sweep_id, chans) ==
    IF chans = <<>> THEN OD_Empty
    ELSE LET front == DevsFirstWins(acq, sweep_id, SubSeq(chans, 1, Len(chans) - 1))
             ch == chans[Len(chans)]
             hs == AcqGroup(acq, sweep_id, ch).hs
         IN  IF OD_Has(front, hs) THEN front ELSE OD_Set(front, hs, <<sweep_id, ch>>)

\* devs[rec.device_id] = rec, lines 366-370: a later channel on the same headstage
\* takes the place of the earlier one
RECURSIVE Devs(_, _, _)
Devs(acq, sweep_id, chans) ==
    IF chans = <<>> THEN OD_Empty
    ELSE LET front == Devs(acq, sweep_id, SubSeq(chans, 1, Len(chans) - 1))
             ch == chans[Len(chans)]
         IN  OD_Set(front, AcqGroup(acq, sweep_id, ch).hs, <<sweep_id, ch>>)

\* lines 350-372
SyncRecordingInit(acq, sweep_id) ==
    [sweep_id |-> sweep_id,
     _ad_channels |-> AdChannels(acq, sweep_id),
     devs |-> Devs(acq, sweep_id, AdChannels(acq, sweep_id))]

(***************************************************************************)
(* The calls, as functions of what they read: each gives the result ("ok"  *)
(* or the exception), whether the container was read, whether a lazy slot  *)
(* was filled by this call (fresh), and the new value of what it assigns.  *)
(***************************************************************************)

NotebookCallChecksHandle(h, cache, keys, table) ==
    IF h = "None"
    THEN [result |-> "TypeError", read |-> FALSE, fresh |-> FALSE, cache |-> cache]
    ELSE IF cache # <<>>
    THEN [result |-> "ok", read |-> FALSE, fresh |-> FALSE, cache |-> cache]
    ELSE LET d == Decode(keys, table)
         IN  IF d.err # "none"
             THEN [result |-> d.err, read |-> TRUE, fresh |-> FALSE, cache |-> <<>>]
             ELSE [result |-> "ok", read |-> TRUE, fresh |-> TRUE, cache |-> <<d.nb>>]

NotebookCallNoCache(h, cache, keys, table) ==
    IF h = "None"
    THEN [result |-> "TypeError", read |-> FALSE, fresh |-> FALSE, cache |-> cache]
    ELSE LET d == Decode(keys, table)
         IN  IF d.err # "none"
             THEN [result |-> d.err, read |-> TRUE, fresh |-> FALSE, cache |-> <<>>]
             ELSE [result |-> "ok", read |-> TRUE, fresh |-> TRUE, cache |-> <<d.nb>>]

\* the entries assigned to self._notebook before the loops have run
NotebookCallCachesOnError(h, cache, keys, table) ==
    IF cache # <<>>
    THEN [result |-> "ok", read |-> FALSE, fresh |-> FALSE, cache |-> cache]
    ELSE IF h = "None"
    THEN [result |-> "TypeError", read |-> FALSE, fresh |-> FALSE, cache |-> cache]
    ELSE LET d == Decode(keys, table)
         IN  IF d.err # "none"
             THEN [result |-> d.err, read |-> TRUE, fresh |-> TRUE, cache |-> <<OD_Empty>>]
             ELSE [result |-> "ok", read |-> TRUE, fresh |-> TRUE, cache |-> <<d.nb>>]

\* notebook(), lines 23-100.  self.hdf[...] on None raises TypeError (line 35).
NotebookCall(h, cache, keys, table) ==
    IF cache # <<>>
    THEN [result |-> "ok", read |-> FALSE, fresh |-> FALSE, cache |-> cache]
    ELSE IF h = "None"
    THEN [result |-> "TypeError", read |-> FALSE, fresh |-> FALSE, cache |-> cache]
    ELSE LET d == Decode(keys, table)
         IN  IF d.err # "none"
             THEN [result |-> d.err, read |-> TRUE, fresh |-> FALSE, cache |-> <<>>]
             ELSE [result |-> "ok", read |-> TRUE, fresh |-> TRUE, cache |-> <<d.nb>>]

RecId(a) == <<a.sweep, a.ad>>

\* what the first recording that cannot be constructed raises, "none" if all can
FirstInitError(notebook, order) ==
    LET bad == {k \in DOMAIN order : RecordingInitError(notebook, order[k]) # "none"}
    IN  IF bad = {} THEN "none"
        ELSE RecordingInitError(notebook, order[CHOOSE k \in bad : \A j \in bad : k <= j])

\* the position in order of the first recording that cannot be constructed
FirstBad(notebook, order) ==
    LET bad == {k \in DOMAIN order : RecordingInitError(notebook, order[k]) # "none"}
    IN  CHOOSE k \in bad : \A j \in bad : k <= j

SweepList(acq, ids) == [k \in DOMAIN ids |-> SyncRecordingInit(acq, ids[k])]

Recordings(notebook, acq, part) ==
    [r \in {RecId(a) : a \in part} |-> RecordingInit(notebook, AcqGroup(acq, r[1], r[2]))]

ContentsRaisedKeepsBuilt(same, n, acq, order) ==
    LET sweep == order[FirstBad(n.cache[1], order)].sweep
        done == SelectSeq(SweepIds(acq), LAMBDA x : StrLess(SweepStr(x), SweepStr(sweep)))
    IN  [same EXCEPT !.result = FirstInitError(n.cache[1], order), !.read = TRUE,
                     !.nbfresh = n.fresh, !.cache = n.cache,
                     !.sweeps = << SweepList(acq, done) >>,
                     !.recs = Recordings(n.cache[1], acq,
                                         {a \in acq : a.sweep \in Range(done)})]

\* a constructor raised inside the list comprehension of line 111: nothing is
\* assigned to _sweeps; the notebook decoded on the way stays cached
ContentsRaised(same, n, acq, order) ==
    [same EXCEPT !.result = FirstInitError(n.cache[1], order), !.read = TRUE,
                 !.nbfresh = n.fresh, !.cache = n.cache]

\* contents, lines 102-112, with the constructors it runs.  The notebook is decoded
\* by the first MiesRecording.__init__ (line 252).
ContentsCall(h, sweeps, cache, keys, table, acq, old) ==
    LET same == [result |-> "ok", read |-> FALSE, fresh |-> FALSE, nbfresh |-> FALSE,
                 sweeps |-> sweeps, cache |-> cache, recs |-> old]
        order == BuildOrder(acq, SweepIds(acq))
        n == CHOOSE x \in {NotebookCall(h, cache, keys, table)} : TRUE
    IN  IF sweeps # <<>> THEN same
        ELSE IF h = "None" THEN [same EXCEPT !.result = "TypeError"]
        ELSE IF order = <<>>
        THEN [same EXCEPT !.read = TRUE, !.fresh = TRUE, !.sweeps = << <<>> >>]
        ELSE IF n.result # "ok" THEN [same EXCEPT !.result = n.result, !.read = TRUE]
        ELSE IF FirstInitError(n.cache[1], order) # "none"
        THEN ContentsRaised(same, n, acq, order)
        ELSE [result |-> "ok", read |-> TRUE, fresh |-> TRUE, nbfresh |-> n.fresh,
              sweeps |-> << SweepList(acq, SweepIds(acq)) >>,
              cache |-> n.cache,
              recs |-> Recordings(n.cache[1], acq, acq)]

\* the matching done on the channel number in place of the electrode name
MatchingStimsByChannel(stim, sweep_id, device_id) ==
    {x \in stim : x.sweep = sweep_id /\ x.da = device_id}

\* the stimulus groups of the sweep whose electrode_name is that of the device
\* (lines 328-331)
MatchingStims(stim, sweep_id, device_id) ==
    {x \in stim : x.sweep = sweep_id /\ x.elec = device_id}

\* da_chan(), lines 323-335.  Every match assigns, so the last one in the order of
\* the keys stays: with one-digit channel numbers, the largest.
DaChanCall(h, rec, sweep_id, stim) ==
    LET match == {x.da : x \in MatchingStims(stim, sweep_id, rec.device_id)}
        same == [result |-> "ok", read |-> FALSE, fresh |-> FALSE, rec |-> rec]
    IN  IF rec._da_chan # <<>> THEN same
        ELSE IF h = "None" THEN [same EXCEPT !.result = "TypeError"]
        ELSE IF match = {} THEN [same EXCEPT !.result = "NotFound", !.read = TRUE]
        ELSE [result |-> "ok", read |-> TRUE, fresh |-> TRUE,
              rec |-> [rec EXCEPT !._da_chan = << Max(match) >>]]

\* command_hdf, lines 278-282: da_chan() is called, then the path is looked up
CommandHdfCall(h, rec, sweep_id, stim) ==
    LET d == DaChanCall(h, rec, sweep_id, stim)
    IN  IF d.result # "ok" THEN d
        ELSE IF h = "None" THEN [d EXCEPT !.result = "TypeError"]
        ELSE [d EXCEPT !.read = TRUE]

\* the two factors of line 227 the wrong way round
PrimaryScaleSwapped(mode) == IF mode = "vc" THEN -3 ELSE -12

\* the exponent of ten of the scale, lines 227 and 230
PrimaryScale(mode) == IF mode = "vc" THEN -12 ELSE -3
CommandScale(mode) == IF mode = "vc" THEN -3 ELSE -12

StimGroup(stim, sweep_id, da) == CHOOSE x \in stim : x.sweep = sweep_id /\ x.da = da

\* MiesTrace.data, lines 221-232, on the trace chan of recording rec built from
\* acquisition group a.  primary_hdf goes through the group the recording holds
\* since its construction: h5py raises once that group's file has been closed.
TraceDataCall(h, valid, rec, chan, a, stim) ==
    LET same == [result |-> "ok", read |-> FALSE, fresh |-> FALSE, rec |-> rec]
        mode == ClampMode(rec.notebook)
        c == CommandHdfCall(h, rec, a.sweep, stim)
    IN  IF rec[chan] # <<>> THEN same
        ELSE IF chan = "primary"
        THEN (IF ~valid THEN [same EXCEPT !.result = "ValueError"]
              ELSE [result |-> "ok", read |-> TRUE, fresh |-> TRUE,
                    rec |-> [rec EXCEPT !.primary =
                               << [raw |-> a.raw, scale |-> PrimaryScale(mode)] >>]])
        ELSE (IF c.result # "ok" THEN [c EXCEPT !.fresh = FALSE]
              ELSE [result |-> "ok", read |-> TRUE, fresh |-> TRUE,
                    rec |-> [c.rec EXCEPT !.command =
                               << [raw |-> StimGroup(stim, a.sweep, c.rec._da_chan[1]).raw,
                                   scale |-> CommandScale(mode)] >>]])

\* _get_stim_data, lines 319-321: the command data scaled anew on every call, the
\* exponent of ten being that of line 320
GetStimDataCall(h, rec, sweep_id, stim) ==
    LET c == CommandHdfCall(h, rec, sweep_id, stim)
    IN  IF c.result # "ok" THEN [c EXCEPT !.fresh = FALSE] @@ [ret |-> <<>>]
        ELSE [c EXCEPT !.fresh = FALSE] @@
             [ret |-> << [raw |-> StimGroup(stim, sweep_id, c.rec._da_chan[1]).raw,
                          scale |-> IF ClampMode(rec.notebook) = "vc" THEN -3 ELSE -12] >>]

\* int(x) of the quotient n / d: towards zero
Trunc(n, d) ==
    IF (n >= 0) = (d > 0) THEN (IF n >= 0 THEN n ELSE -n) \div (IF d > 0 THEN d ELSE -d)
    ELSE -((IF n >= 0 THEN n ELSE -n) \div (IF d > 0 THEN d ELSE -d))

\* lines 301-305, in exact arithmetic.  "TP Pulse Duration" is in ms, "TP Baseline
\* Fraction" is held in hundredths, dt in microseconds:
\*   tdur / dt = pdur * 1000 * (300 - 2 frac) / ((100 - 2 frac) * dt)
TestPulseStop(nbmap, dt) ==
    Trunc(nbmap["TP Pulse Duration"] * 1000 * (300 - 2 * nbmap["TP Baseline Fraction"]),
          (100 - 2 * nbmap["TP Baseline Fraction"]) * dt)

\* lines 296-317, inserted being the outcome of the test of line 297.  ret is what
\* the property returns.
InsertedTestPulseBody(rec, inserted) ==
    LET m == rec.notebook
        mode == ClampMode(m)
        amp == IF mode = "vc" THEN "TP Amplitude VC" ELSE "TP Amplitude IC"
        same == [result |-> "ok", read |-> FALSE, fresh |-> FALSE, rec |-> rec,
                 ret |-> rec._inserted_test_pulse]
        fail(e) == [same EXCEPT !.result = e]
    IN  IF rec._inserted_test_pulse # <<>> THEN same
        ELSE IF "TP Insert Checkbox" \notin DOMAIN m THEN fail("KeyError")
        ELSE IF ~inserted THEN same
        ELSE IF "TP Pulse Duration" \notin DOMAIN m THEN fail("KeyError")
        ELSE IF m["TP Pulse Duration"] = PyNone THEN fail("TypeError")
        ELSE IF "TP Baseline Fraction" \notin DOMAIN m THEN fail("KeyError")
        ELSE IF m["TP Baseline Fraction"] = PyNone THEN fail("TypeError")
        ELSE IF 100 - 2 * m["TP Baseline Fraction"] = 0 THEN fail("ZeroDivisionError")
        ELSE IF rec.dt = 0 THEN fail("ZeroDivisionError")
        ELSE IF amp \notin DOMAIN m THEN fail("KeyError")
        ELSE IF m[amp] = PyNone THEN fail("TypeError")
        ELSE LET tp == [indices |-> <<0, TestPulseStop(m, rec.dt)>>,
                        mies_pulse_amplitude |->
                            [raw |-> m[amp], scale |-> CommandScale(mode)]]
             IN  [result |-> "ok", read |-> FALSE, fresh |-> TRUE,
                  rec |-> [rec EXCEPT !._inserted_test_pulse = <<tp>>],
                  ret |-> <<tp>>]

\* the checkbox tested for truth in place of equality with 1.0
InsertedTestPulseCallTruthy(rec) ==
    InsertedTestPulseBody(rec, rec.notebook["TP Insert Checkbox"] \notin {0, PyNone})

\* inserted_test_pulse, lines 291-317
InsertedTestPulseCall(rec) ==
    InsertedTestPulseBody(rec, rec.notebook["TP Insert Checkbox"] = 1)

(***************************************************************************)
(* The experiment in use: any sequence of calls on one MiesNwb object and  *)
(* on the recordings and traces reached through contents.                  *)
(***************************************************************************)

\* one notebook record of a sweep: headstage 0 in voltage clamp with an inserted
\* test pulse, headstage 1 in current clamp without; pip is the pipette offset
LifeRec(sweep, pip) ==
    MakeRec(KeysFull,
        {<<"SweepNum", 0, sweep>>, <<"EntrySourceType", 0, 0>>,
         <<"Clamp Mode", 0, 0>>, <<"Clamp Mode", 1, 1>>,
         <<"Bridge Bal Enable", 1, 0>>,
         <<"Pipette Offset", 0, pip>>, <<"Pipette Offset", 1, pip>>,
         <<"TP Insert Checkbox", 0, 1>>, <<"TP Insert Checkbox", 1, 0>>,
         <<"TP Pulse Duration", 0, 20>>, <<"TP Baseline Fraction", 0, 25>>,
         <<"TP Amplitude VC", 0, 10>>, <<"TP Amplitude IC", 1, 50>>})

\* notebooks with both sweeps, without sweep 2, and with a sweep 2 that lacks the
\* pipette offset
LifeTables ==
    { <<LifeRec(1, 2), LifeRec(2, 2)>>, <<LifeRec(1, 2)>>, <<LifeRec(1, 2), LifeRec(2, NaN)>> }

Acq(sweep, ad, hs) == [sweep |-> sweep, ad |-> ad, hs |-> hs, dt |-> 100, raw |-> 10 * sweep + ad]
Stim(sweep, da, elec) == [sweep |-> sweep, da |-> da, elec |-> elec, raw |-> 100 + 10 * sweep + da]

\* two sweeps of one channel, or one sweep of two channels
LifeAcquisitions ==
    { {Acq(1, 0, 0), Acq(2, 0, 0)}, {Acq(1, 0, 1), Acq(1, 1, 0)} }

\* a stimulus channel for every headstage of every sweep, or for headstage 0 of
\* sweep 1 only
LifeStimuli ==
    { {Stim(1, 1, 0), Stim(1, 0, 1), Stim(2, 1, 0)}, {Stim(1, 1, 0)} }

\* after MiesNwb.__init__ (lines 14-21): the file is open, nothing is cached
Init ==
    /\ InitObjects
    /\ pc = "idle"
    /\ nb_keys = KeysFull
    /\ nb \in LifeTables
    /\ acquisition \in LifeAcquisitions
    /\ stimulus \in LifeStimuli

\* the history count c with one more computation of slot, if the call was one
Counted(c, slot, fresh) ==
    IF fresh
    THEN [x \in DOMAIN c \cup {slot} |->
            IF x = slot THEN (IF slot \in DOMAIN c THEN c[slot] ELSE 0) + 1 ELSE c[x]]
    ELSE c

\* nwb.notebook()
Notebook ==
    /\ pc = "idle"
    /\ LET r == NotebookCall(hdf, _notebook, nb_keys, nb)
       IN  /\ _notebook' = r.cache
           /\ computed' = Counted(computed, <<"notebook">>, r.fresh)
           /\ last' = Outcome("notebook", <<>>, r.result, r.read,
                              IF r.result = "ok" THEN r.cache ELSE <<>>)
    /\ UNCHANGED <<fileVars, objVars, loopVars>>

\* nwb.contents
Contents ==
    /\ pc = "idle"
    /\ \E r \in {ContentsCall(hdf, _sweeps, _notebook, nb_keys, nb, acquisition, recs)} :
           /\ _sweeps' = r.sweeps
           /\ _notebook' = r.cache
           /\ recs' = r.recs
           /\ groups_valid' = IF r.fresh THEN TRUE ELSE groups_valid
           /\ computed' = Counted(Counted(computed, <<"notebook">>, r.nbfresh),
                                  <<"contents">>, r.fresh)
           /\ last' = Outcome("contents", <<>>, r.result, r.read,
                              IF r.result = "ok" THEN r.sweeps ELSE <<>>)
    /\ UNCHANGED <<fileVars, hdf, loopVars>>

\* close() that returns when there is no handle to close
CloseCallIdempotent(h) == [result |-> "ok", hdf |-> "None"]

\* close(), lines 117-119: None.close() raises AttributeError before the
\* assignment
CloseCall(h) ==
    IF h = "None" THEN [result |-> "AttributeError", hdf |-> "None"]
    ELSE [result |-> "ok", hdf |-> "None"]

\* open(), lines 121-128: nothing to do with a handle; else the file is opened,
\* or the error of h5py.File is raised again and the handle stays None
OpenCall(h, found) ==
    IF h # "None" THEN [result |-> "ok", hdf |-> h]
    ELSE IF found THEN [result |-> "ok", hdf |-> "File"]
    ELSE [result |-> "IOError", hdf |-> "None"]

\* nwb.close(); the groups taken from the closed file are no longer valid
Close ==
    /\ pc = "idle"
    /\ hdf' = CloseCall(hdf).hdf
    /\ groups_valid' = IF hdf = "None" THEN groups_valid ELSE FALSE
    /\ last' = Outcome("close", <<>>, CloseCall(hdf).result, FALSE, <<>>)
    /\ UNCHANGED <<fileVars, _notebook, _sweeps, recs, loopVars, computed>>

\* nwb.open(); whether the file can be opened is up to the file system
Open ==
    /\ pc = "idle"
    /\ \E found \in BOOLEAN :
          /\ hdf' = OpenCall(hdf, found).hdf
          /\ last' = Outcome("open", <<>>, OpenCall(hdf, found).result, FALSE, <<>>)
    /\ UNCHANGED <<fileVars, _notebook, _sweeps, recs, groups_valid, loopVars, computed>>

\* nwb.__enter__(), lines 130-132
Enter ==
    /\ pc = "idle"
    /\ \E found \in BOOLEAN :
          /\ hdf' = OpenCall(hdf, found).hdf
          /\ last' = Outcome("__enter__", <<>>, OpenCall(hdf, found).result, FALSE, <<>>)
    /\ UNCHANGED <<fileVars, _notebook, _sweeps, recs, groups_valid, loopVars, computed>>

\* nwb.__exit__(), lines 134-135
Exit ==
    /\ pc = "idle"
    /\ hdf' = CloseCall(hdf).hdf
    /\ groups_valid' = IF hdf = "None" THEN groups_valid ELSE FALSE
    /\ last' = Outcome("__exit__", <<>>, CloseCall(hdf).result, FALSE, <<>>)
    /\ UNCHANGED <<fileVars, _notebook, _sweeps, recs, loopVars, computed>>

\* rec[chan].data for a recording reached through the cached sweep list
TraceData(r, chan) ==
    /\ pc = "idle"
    /\ _sweeps # <<>>
    /\ LET c == TraceDataCall(hdf, groups_valid, recs[r], chan,
                              AcqGroup(acquisition, r[1], r[2]), stimulus)
       IN  /\ recs' = [recs EXCEPT ![r] = c.rec]
           /\ computed' = Counted(Counted(computed, <<"da_chan", r[1], r[2]>>,
                                          c.rec._da_chan # recs[r]._da_chan),
                                  <<"data", r[1], r[2], chan>>, c.fresh)
           /\ last' = Outcome("data", <<r[1], r[2], chan>>, c.result, c.read,
                              IF c.result = "ok" THEN c.rec[chan] ELSE <<>>)
    /\ UNCHANGED <<fileVars, hdf, _notebook, _sweeps, groups_valid, loopVars>>

\* rec.da_chan()
DaChan(r) ==
    /\ pc = "idle"
    /\ _sweeps # <<>>
    /\ LET c == DaChanCall(hdf, recs[r], r[1], stimulus)
       IN  /\ recs' = [recs EXCEPT ![r] = c.rec]
           /\ computed' = Counted(computed, <<"da_chan", r[1], r[2]>>, c.fresh)
           /\ last' = Outcome("da_chan", <<r[1], r[2]>>, c.result, c.read,
                              IF c.result = "ok" THEN c.rec._da_chan ELSE <<>>)
    /\ UNCHANGED <<fileVars, hdf, _notebook, _sweeps, groups_valid, loopVars>>

\* rec.command_hdf
CommandHdf(r) ==
    /\ pc = "idle"
    /\ _sweeps # <<>>
    /\ LET c == CommandHdfCall(hdf, recs[r], r[1], stimulus)
       IN  /\ recs' = [recs EXCEPT ![r] = c.rec]
           /\ computed' = Counted(computed, <<"da_chan", r[1], r[2]>>, c.fresh)
           /\ last' = Outcome("command_hdf", <<r[1], r[2]>>, c.result, c.read,
                              IF c.result = "ok" THEN <<r[1], c.rec._da_chan[1]>> ELSE <<>>)
    /\ UNCHANGED <<fileVars, hdf, _notebook, _sweeps, groups_valid, loopVars>>

\* rec.inserted_test_pulse
InsertedTestPulse(r) ==
    /\ pc = "idle"
    /\ _sweeps # <<>>
    /\ LET c == InsertedTestPulseCall(recs[r])
       IN  /\ recs' = [recs EXCEPT ![r] = c.rec]
           /\ computed' = Counted(computed, <<"itp", r[1], r[2]>>, c.fresh)
           /\ last' = Outcome("inserted_test_pulse", <<r[1], r[2]>>, c.result, c.read,
                              IF c.result = "ok" THEN c.ret ELSE <<>>)
    /\ UNCHANGED <<fileVars, hdf, _notebook, _sweeps, groups_valid, loopVars>>

RecIds == {RecId(a) : a \in acquisition}

Next ==
    \/ Notebook
    \/ Contents
    \/ Close
    \/ Open
    \/ Enter
    \/ Exit
    \/ \E r \in RecIds : \E chan \in {"primary", "command"} : TraceData(r, chan)
    \/ \E r \in RecIds : DaChan(r)
    \/ \E r \in RecIds : CommandHdf(r)
    \/ \E r \in RecIds : InsertedTestPulse(r)

Spec == Init /\ [][Next]_vars

(***************************************************************************)
(* Properties of the decoder.                                              *)
(***************************************************************************)
Decoded == _notebook[1]

\* the sweep number of record n, as line 68 takes it
SweepOf(n) == nb[n][1][0]

\* the records merged so far that belong to sweep s, in table order
MergedOf(s) == SelectSeq(merged, LAMBDA n : SweepOf(n) = s)

\* the value of cell (f, c) in the last of the first k records of idx that is
\* not NaN there; NaN when there is none
RECURSIVE LastNonNaN(_, _, _, _)
LastNonNaN(idx, k, f, c) ==
    IF k = 0 THEN NaN
    ELSE IF ~isnan(nb[idx[k]][f][c]) THEN nb[idx[k]][f][c]
    ELSE LastNonNaN(idx, k - 1, f, c)

\* C1: at every point of the record loop and after it, each sweep that had a
\* surviving record has an entry, and every cell of that entry holds the value of
\* the last surviving record of the sweep that is not NaN in the cell (NaN only
\* when all of them are NaN there): a later NaN never erases, a later value
\* always overwrites.
C1_NaNMerge ==
    pc \in {"loop", "done"} =>
        /\ Range(nb_entries.keys) = {SweepOf(n) : n \in Range(merged)}
        /\ \A s \in Range(nb_entries.keys) :
             \A f \in DOMAIN nb_keys : \A c \in 0..GlobalCol :
                nb_entries.val[s][f][c] =
                    LastNonNaN(MergedOf(s), Len(MergedOf(s)), f, c)

\* a sweep with three surviving records: a value, another value over it, then NaN
C1_Witness ==
    /\ pc = "done"
    /\ \E s \in Range(nb_entries.keys) : \E f \in DOMAIN nb_keys : \E c \in 0..GlobalCol :
         LET m == MergedOf(s)
         IN  /\ Len(m) = 3
             /\ ~isnan(nb[m[1]][f][c])
             /\ ~isnan(nb[m[2]][f][c])
             /\ nb[m[2]][f][c] # nb[m[1]][f][c]
             /\ isnan(nb[m[3]][f][c])
             /\ nb_entries.val[s][f][c] = nb[m[2]][f][c]

\* C4: in the decoded notebook, a field whose merged global column (8) is not NaN
\* has that value in every channel mapping of the sweep, whatever the other
\* columns held.
C4_GlobalPrecedence ==
    pc = "done" =>
        \A s \in Range(Decoded.keys) : \A f \in DOMAIN nb_keys :
            ~isnan(nb_entries.val[s][f][GlobalCol]) =>
                \A c \in DOMAIN Decoded.val[s] :
                    Decoded.val[s][c][nb_keys[f]] = nb_entries.val[s][f][GlobalCol]

\* one of the first four fields and an 'Async AD ' field, each with a global value
\* and a different value in column 0
C4_Witness ==
    /\ pc = "done"
    /\ \E s \in Range(Decoded.keys) : \E f \in 1..FirstFields :
         /\ ~isnan(nb_entries.val[s][f][GlobalCol])
         /\ ~isnan(nb_entries.val[s][f][0])
         /\ nb_entries.val[s][f][0] # nb_entries.val[s][f][GlobalCol]
         /\ Decoded.val[s][0][nb_keys[f]] = nb_entries.val[s][f][GlobalCol]
    /\ \E s \in Range(Decoded.keys) : \E f \in DOMAIN nb_keys :
         /\ StartsWithAsyncAD(nb_keys[f])
         /\ ~isnan(nb_entries.val[s][f][GlobalCol])
         /\ ~isnan(nb_entries.val[s][f][2])
         /\ Decoded.val[s][2][nb_keys[f]] = nb_entries.val[s][f][GlobalCol]

\* column 0 of row f once the global column has been propagated, as decoded
Col0AfterGlobal(entry, f) ==
    LET v == IF ~isnan(entry[f][GlobalCol]) THEN entry[f][GlobalCol] ELSE entry[f][0]
    IN  IF isnan(v) THEN PyNone ELSE v

\* C5: in the decoded notebook each of the first four fields and each
\* 'Async AD ' field has one value in all channel mappings of a sweep: that of
\* column 0 after the global column was propagated.
C5_Broadcast ==
    pc = "done" =>
        \A s \in Range(Decoded.keys) : \A f \in DOMAIN nb_keys :
            (f <= FirstFields \/ StartsWithAsyncAD(nb_keys[f])) =>
                \A c \in DOMAIN Decoded.val[s] :
                    Decoded.val[s][c][nb_keys[f]] = Col0AfterGlobal(nb_entries.val[s], f)

\* a first-four field and an 'Async AD ' field whose column 2 differed from column 0
C5_Witness ==
    /\ pc = "done"
    /\ \E s \in Range(Decoded.keys) : \E f \in 2..FirstFields :
         /\ isnan(nb_entries.val[s][f][GlobalCol])
         /\ ~isnan(nb_entries.val[s][f][2])
         /\ nb_entries.val[s][f][2] # nb_entries.val[s][f][0]
         /\ Decoded.val[s][2][nb_keys[f]] = Col0AfterGlobal(nb_entries.val[s], f)
    /\ \E s \in Range(Decoded.keys) : \E f \in DOMAIN nb_keys :
         /\ StartsWithAsyncAD(nb_keys[f])
         /\ isnan(nb_entries.val[s][f][GlobalCol])
         /\ ~isnan(nb_entries.val[s][f][2])
         /\ nb_entries.val[s][f][2] # nb_entries.val[s][f][0]
         /\ Decoded.val[s][2][nb_keys[f]] = Col0AfterGlobal(nb_entries.val[s], f)

IsAscending(seq) == \A a, b \in DOMAIN seq : a < b => seq[a] < seq[b]

\* s without the elements that occurred earlier in it
RECURSIVE FirstOccurrences(_)
FirstOccurrences(seq) ==
    IF seq = <<>> THEN <<>>
    ELSE LET front == FirstOccurrences(SubSeq(seq, 1, Len(seq) - 1))
             x == seq[Len(seq)]
         IN  IF x \in Range(front) THEN front ELSE Append(front, x)

\* C6 as claimed: the sweep ids of the decoded notebook iterate in ascending order.
C6_Ascending == pc = "done" => IsAscending(Decoded.keys)

\* C6 as amended: the sweep ids iterate in the order in which the first surviving
\* record of each sweep occurs in the raw table.
C6_FirstSurvivorOrder ==
    pc = "done" =>
        Decoded.keys = FirstOccurrences([k \in DOMAIN merged |-> SweepOf(merged[k])])

\* a table whose first surviving record of sweep 2 precedes that of sweep 1
C6_Witness ==
    /\ pc = "done"
    /\ Decoded.keys = <<2, 1>>
    /\ Len(merged) = 3

(***************************************************************************)
(* Properties of the test-pulse classification.                            *)
(***************************************************************************)
HasSourceType == nb_fields(nb_keys, "EntrySourceType") # 0

PeakFinite(n) == AnyFinite(nb[n][nb_fields(nb_keys, "TP Peak Resistance")])
DurFinite(n) == AnyFinite(nb[n][nb_fields(nb_keys, "TP Pulse Duration")])
SourceType(n) == nb[n][nb_fields(nb_keys, "EntrySourceType")][0]

\* C2 as claimed: without an EntrySourceType field, whenever record n has a finite
\* "TP Peak Resistance" and record n+1 a finite "TP Pulse Duration", neither of
\* the two is ever merged into an entry.
C2_BlockDiscarded ==
    (pc \in {"loop", "done"} /\ ~HasSourceType) =>
        \A n \in 1..(Len(nb) - 1) :
            (PeakFinite(n) /\ DurFinite(n + 1)) =>
                (n \notin Range(merged) /\ (n + 1) \notin Range(merged))

\* C3 as claimed: with an EntrySourceType field, a record that has a sweep number
\* and a source type that is not NaN is decided by the source type alone: when the
\* table has been consumed it has been merged if and only if its source type is 0.
C3_SourceTypeDecides ==
    (pc = "done" /\ HasSourceType) =>
        \A n \in 1..Len(nb) :
            (~isnan(SweepOf(n)) /\ ~isnan(SourceType(n))) =>
                (n \in Range(merged) <=> SourceType(n) = 0)

(***************************************************************************)
(* Properties of the experiment in use.                                    *)
(***************************************************************************)

\* the lazy slots: the decoded notebook, the sweep list, and per recording the
\* two sample arrays, the stimulus channel and the inserted test pulse
AllSlots ==
    {<<"notebook">>, <<"contents">>} \cup
    {<<"data", r[1], r[2], chan>> : r \in RecIds, chan \in {"primary", "command"}} \cup
    {<<"da_chan", r[1], r[2]>> : r \in RecIds} \cup
    {<<"itp", r[1], r[2]>> : r \in RecIds}

\* what a slot holds: <<>> while it is None
SlotValue(slot) ==
    CASE slot[1] = "notebook" -> _notebook
      [] slot[1] = "contents" -> _sweeps
      [] <<slot[2], slot[3]>> \notin DOMAIN recs -> <<>>
      [] slot[1] = "data" -> recs[<<slot[2], slot[3]>>][slot[4]]
      [] slot[1] = "da_chan" -> recs[<<slot[2], slot[3]>>]._da_chan
      [] OTHER -> recs[<<slot[2], slot[3]>>]._inserted_test_pulse

\* the slot a call reads through
SlotOf(call) ==
    CASE call.op = "notebook" -> <<"notebook">>
      [] call.op = "contents" -> <<"contents">>
      [] call.op = "data" -> <<"data">> \o call.target
      [] call.op = "da_chan" -> <<"da_chan">> \o call.target
      [] call.op = "inserted_test_pulse" -> <<"itp">> \o call.target
      [] OTHER -> <<"none">>

\* C7: no lazy slot is computed to the end more than once, and once a slot is
\* filled every step leaves its value as it is, and a call that reads through it
\* succeeds, returns that value and does not read the container; close() and
\* open() are among the steps.
C7_Memoize ==
    /\ [](\A slot \in DOMAIN computed : computed[slot] <= 1)
    /\ [][\A slot \in AllSlots :
            SlotValue(slot) # <<>> =>
                /\ SlotValue(slot)' = SlotValue(slot)
                /\ SlotOf(last') = slot =>
                     /\ last'.result = "ok"
                     /\ ~last'.read
                     /\ last'.ret = SlotValue(slot)]_vars

\* every kind of slot filled, the file closed and opened again since, and a cached
\* sample array just returned without a read
C7_Witness ==
    /\ _notebook # <<>>
    /\ _sweeps # <<>>
    /\ \E r \in DOMAIN recs :
         /\ recs[r].primary # <<>>
         /\ recs[r].command # <<>>
         /\ recs[r]._da_chan # <<>>
         /\ recs[r]._inserted_test_pulse # <<>>
         /\ last.op = "data"
         /\ last.target = <<r[1], r[2], "primary">>
         /\ last.result = "ok"
         /\ ~last.read
    /\ hdf = "File"
    /\ ~groups_valid

ReadOps == {"notebook", "contents", "data", "da_chan", "command_hdf"}

\* C8 as claimed: a read made while the experiment is closed fails, and without
\* any read from the container.
C8_ClosedReadFails ==
    (hdf = "None" /\ last.op \in ReadOps) => (last.result # "ok" /\ ~last.read)

\* C8 as amended: a read made while the experiment is closed never reads from the
\* container; it fails when its result is not cached yet, and command_hdf always
\* fails; notebook(), contents, a trace's data and da_chan() succeed when their
\* result was cached before the close, and return the cached result.
C8_ClosedReadCachedOnly ==
    (hdf = "None" /\ last.op \in ReadOps) =>
        /\ ~last.read
        /\ last.result = "ok" <=>
             (last.op # "command_hdf" /\ SlotValue(SlotOf(last)) # <<>>)
        /\ last.result = "ok" => last.ret = SlotValue(SlotOf(last))

\* closed, the notebook returned from the cache, while a primary array is not
\* cached
C8_Witness ==
    /\ hdf = "None"
    /\ last.op = "notebook"
    /\ last.result = "ok"
    /\ \E r \in DOMAIN recs : recs[r].primary = <<>> /\ recs[r].command # <<>>

\* the sweeps that have an acquisition group but no entry in the decoded notebook
SweepsWithoutEntry ==
    {a.sweep : a \in acquisition} \ Range(Decode(nb_keys, nb).nb.keys)

\* C9 as claimed: when a sweep has an acquisition group but no notebook entry,
\* contents on an open experiment still returns the sweep list, with every other
\* sweep in it.
C9_OtherSweepsBuilt ==
    (SweepsWithoutEntry # {} /\ last.op = "contents" /\ hdf = "File") =>
        /\ last.result = "ok"
        /\ \A a \in acquisition :
             a.sweep \notin SweepsWithoutEntry =>
                \E k \in DOMAIN _sweeps[1] : _sweeps[1][k].sweep_id = a.sweep

\* C9 as amended: when a sweep has an acquisition group but no notebook entry,
\* every access to contents raises: no sweep list is returned or cached, no
\* recording exists, and no entry is made up; on an open experiment the notebook
\* decoded on the way stays cached.
C9_ContentsAborts ==
    SweepsWithoutEntry # {} =>
        /\ _sweeps = <<>>
        /\ recs = <<>>
        /\ last.op = "contents" => (last.result # "ok" /\ last.ret = <<>>)
        /\ (last.op = "contents" /\ hdf = "File") =>
              /\ _notebook # <<>>
              /\ Range(_notebook[1].keys) \cap SweepsWithoutEntry = {}

\* contents has raised KeyError for the second of two sweeps, the first of which
\* has its entry
C9_Witness ==
    /\ SweepsWithoutEntry = {2}
    /\ last.op = "contents"
    /\ last.result = "KeyError"
    /\ hdf = "File"
    /\ OD_Has(_notebook[1], 1)
    /\ \E a \in acquisition : a.sweep = 1

\* C10: da_chan() returns the number of a stimulus channel of the recording's own
\* sweep whose electrode is the recording's device; it raises the not-found error
\* only when the sweep has no such channel, and then always on an open experiment
\* (on a closed one the read fails earlier); the error leaves the experiment, the
\* sweep list and every recording as they were.
C10_DaChan ==
    /\ [](last.op = "da_chan" =>
            LET r == <<last.target[1], last.target[2]>>
                match == {x.da : x \in {y \in stimulus :
                                          y.sweep = r[1] /\ y.elec = recs[r].device_id}}
            IN  /\ last.result = "ok" => last.ret[1] \in match
                /\ last.result = "NotFound" => match = {}
                /\ match = {} => last.result # "ok"
                /\ (match = {} /\ hdf = "File") => last.result = "NotFound")
    /\ [][(last'.op = "da_chan" /\ last'.result = "NotFound") =>
            UNCHANGED <<hdf, _notebook, _sweeps, recs, groups_valid>>]_vars

\* da_chan() has just raised not-found for one recording of a sweep whose other
\* recording has both of its sample arrays read
C10_Witness ==
    /\ last.op = "da_chan"
    /\ last.result = "NotFound"
    /\ \E r \in DOMAIN recs :
         /\ r # <<last.target[1], last.target[2]>>
         /\ r[1] = last.target[1]
         /\ recs[r].primary # <<>>
         /\ recs[r].command # <<>>

(***************************************************************************)
(* The enumeration of sweeps and recordings: contents on containers whose  *)
(* acquisition group holds any choice of datasets data_<sweep>_AD<ad>,     *)
(* each with a headstage in its electrode_name.                            *)
(***************************************************************************)

\* the largest A/D channel number of a dataset
MaxAd == 2

\* sweep ids on both sides of the width of '%05d'
SweepPool == {99999, 100000}

\* a notebook with an entry for every sweep of the pool
SweepTable == <<LifeRec(99999, 2), LifeRec(100000, 2)>>

InitSweeps ==
    /\ InitObjects
    /\ pc = "idle"
    /\ nb_keys = KeysFull
    /\ nb = SweepTable
    /\ stimulus = {}
    /\ \E D \in SUBSET (SweepPool \X (0..MaxAd)) :
          \E hs \in [D -> {0, 1}] :
             acquisition = {Acq(d[1], d[2], hs[d]) : d \in D}

NextSweeps ==
    \/ Contents
    \/ Close
    \/ Open

SpecSweeps == InitSweeps /\ [][NextSweeps]_vars

\* the sweep ids of the cached sweep list, in its order
ListedIds == [k \in DOMAIN _sweeps[1] |-> _sweeps[1][k].sweep_id]

\* C11: the cached sweep list has exactly one sweep per sweep id found in the
\* names of the acquisition datasets, in ascending order of the sweep id.
C11_SweepsAscending ==
    _sweeps # <<>> =>
        /\ Range(ListedIds) = {a.sweep : a \in acquisition}
        /\ \A j, k \in DOMAIN ListedIds : j < k => ListedIds[j] < ListedIds[k]

\* the acquisition datasets of a sweep
ChannelsOf(sweep_id) == {a \in acquisition : a.sweep = sweep_id}

\* the A/D channels of a sweep that a headstage is named by
AdsOf(sweep_id, h) == {a.ad : a \in {b \in ChannelsOf(sweep_id) : b.hs = h}}

Min(S) == CHOOSE m \in S : \A n \in S : m <= n

\* C18 as claimed: every sweep of the list holds one recording per acquisition
\* channel of the sweep, in ascending order of the channel.
C18_OnePerChannel ==
    _sweeps # <<>> =>
        \A k \in DOMAIN _sweeps[1] :
            LET sw == _sweeps[1][k]
            IN  /\ Len(sw.devs.keys) = Cardinality(ChannelsOf(sw.sweep_id))
                /\ \A j \in DOMAIN sw.devs.keys :
                     sw.devs.val[sw.devs.keys[j]] = <<sw.sweep_id, sw._ad_channels[j]>>

\* C18 as amended: a recording is constructed for every acquisition channel of
\* the sweep, with the headstage of the channel's electrode_name as its device;
\* the sweep holds one recording per distinct headstage, that of the highest
\* channel naming the headstage, and the headstages are in the order of the
\* lowest channel naming each.
C18_OnePerHeadstage ==
    _sweeps # <<>> =>
        \A k \in DOMAIN _sweeps[1] :
            LET sw == _sweeps[1][k]
                keys == sw.devs.keys
            IN  /\ \A a \in ChannelsOf(sw.sweep_id) :
                     /\ RecId(a) \in DOMAIN recs
                     /\ recs[RecId(a)].device_id = a.hs
                /\ Range(keys) = {a.hs : a \in ChannelsOf(sw.sweep_id)}
                /\ Len(keys) = Cardinality(Range(keys))
                /\ \A h \in Range(keys) :
                     sw.devs.val[h] = <<sw.sweep_id, Max(AdsOf(sw.sweep_id, h))>>
                /\ \A x, y \in DOMAIN keys :
                     x < y => Min(AdsOf(sw.sweep_id, keys[x])) < Min(AdsOf(sw.sweep_id, keys[y]))

\* a listed sweep whose channels 0 and 2 name the same headstage and channel 1
\* another, next to a sweep whose channels name different headstages
C18_Witness ==
    /\ _sweeps # <<>>
    /\ \E k \in DOMAIN _sweeps[1] :
         /\ AdsOf(_sweeps[1][k].sweep_id, 0) = {0, 2}
         /\ AdsOf(_sweeps[1][k].sweep_id, 1) = {1}
    /\ \E k \in DOMAIN _sweeps[1] :
         /\ Cardinality(ChannelsOf(_sweeps[1][k].sweep_id)) = 2
         /\ Len(_sweeps[1][k].devs.keys) = 2

(***************************************************************************)
(* One recording under every notebook entry: its clamp mode, the scale of  *)
(* its traces and its inserted test pulse.                                 *)
(***************************************************************************)

\* the notebook record of sweep 1 with, for headstage 0, clamp mode cm, test pulse
\* checkbox cb, pulse duration dur (ms) and baseline fraction frac (hundredths)
RecTable(cm, cb, dur, frac) ==
    << MakeRec(KeysFull,
         {<<"SweepNum", 0, 1>>, <<"EntrySourceType", 0, 0>>,
          <<"Clamp Mode", 0, cm>>, <<"Bridge Bal Enable", 0, 0>>,
          <<"Pipette Offset", 0, 2>>,
          <<"TP Insert Checkbox", 0, cb>>,
          <<"TP Pulse Duration", 0, dur>>, <<"TP Baseline Fraction", 0, frac>>,
          <<"TP Amplitude VC", 0, 10>>, <<"TP Amplitude IC", 0, 50>>}) >>

\* the sampling intervals, in microseconds
SamplingIntervals == {100, 300}

InitRec ==
    /\ InitObjects
    /\ pc = "idle"
    /\ nb_keys = KeysFull
    /\ \E cm \in {NaN, 0, 1, 2} : \E cb \in {NaN, 0, 1, 2} :
          \E dur \in {10, 20} : \E frac \in {10, 25} :
             nb = RecTable(cm, cb, dur, frac)
    /\ \E dt \in SamplingIntervals : acquisition = {[Acq(1, 0, 0) EXCEPT !.dt = dt]}
    /\ stimulus = {Stim(1, 0, 0)}

\* rec._get_stim_data()
GetStimData(r) ==
    /\ pc = "idle"
    /\ _sweeps # <<>>
    /\ LET c == GetStimDataCall(hdf, recs[r], r[1], stimulus)
       IN  /\ recs' = [recs EXCEPT ![r] = c.rec]
           /\ computed' = Counted(computed, <<"da_chan", r[1], r[2]>>,
                                  c.rec._da_chan # recs[r]._da_chan)
           /\ last' = Outcome("_get_stim_data", <<r[1], r[2]>>, c.result, c.read, c.ret)
    /\ UNCHANGED <<fileVars, hdf, _notebook, _sweeps, groups_valid, loopVars>>

\* rec.clamp_mode, lines 268-270
ClampModeProperty(r) ==
    /\ pc = "idle"
    /\ _sweeps # <<>>
    /\ last' = Outcome("clamp_mode", <<r[1], r[2]>>, "ok", FALSE,
                       << ClampMode(recs[r].notebook) >>)
    /\ UNCHANGED <<fileVars, objVars, _notebook, loopVars, computed>>

NextRec ==
    \/ Contents
    \/ \E r \in RecIds : \E chan \in {"primary", "command"} : TraceData(r, chan)
    \/ \E r \in RecIds : GetStimData(r)
    \/ \E r \in RecIds : ClampModeProperty(r)
    \/ \E r \in RecIds : InsertedTestPulse(r)

SpecRec == InitRec /\ [][NextRec]_vars

\* the recording the last call was made on
LastRec == recs[<<last.target[1], last.target[2]>>]

\* C12: a recording is in voltage clamp exactly when "Clamp Mode" of its notebook
\* entry is 0, in current clamp for any other value and for None; the mode kept
\* at construction, the clamp_mode property and the scales of the primary data
\* (1e-12 in voltage clamp, 1e-3 in current clamp), of the command data and of
\* _get_stim_data (1e-3 in voltage clamp, 1e-12 in current clamp) all follow it.
C12_ClampMode ==
    \A r \in DOMAIN recs :
        LET vc == recs[r].notebook["Clamp Mode"] = 0
            cell == nb[1][nb_fields(nb_keys, "Clamp Mode")][recs[r].device_id]
        IN  /\ vc <=> cell = 0
            /\ recs[r].clamp_mode = IF vc THEN "vc" ELSE "ic"
            /\ recs[r].primary # <<>> =>
                 recs[r].primary[1].scale = IF vc THEN -12 ELSE -3
            /\ recs[r].command # <<>> =>
                 recs[r].command[1].scale = IF vc THEN -3 ELSE -12
            /\ (last.op = "_get_stim_data" /\ last.result = "ok") =>
                 last.ret[1].scale = IF vc THEN -3 ELSE -12
            /\ last.op = "clamp_mode" => last.ret[1] = IF vc THEN "vc" ELSE "ic"

\* a recording whose "Clamp Mode" is None: both traces read, _get_stim_data just
\* called
C12_Witness ==
    /\ last.op = "_get_stim_data"
    /\ last.result = "ok"
    /\ LastRec.notebook["Clamp Mode"] = PyNone
    /\ LastRec.primary # <<>>
    /\ LastRec.command # <<>>

\* round(n / d) for positive n and d, halves away from zero
Round(n, d) == (2 * n + d) \div (2 * d)

\* C13: the inserted test pulse covers the samples from 0 to
\* round(total_duration / sampling_interval), the total duration being the pulse
\* duration plus twice the baseline duration pulse / (1 - 2 * fraction).
C13_StopIsRounded ==
    (last.op = "inserted_test_pulse" /\ last.result = "ok" /\ last.ret # <<>>) =>
        LET m == LastRec.notebook
            frac == m["TP Baseline Fraction"]
        IN  last.ret[1].indices =
                <<0, Round(m["TP Pulse Duration"] * 1000 * (300 - 2 * frac),
                           (100 - 2 * frac) * LastRec.dt)>>

\* C16: inserted_test_pulse returns None exactly when "TP Insert Checkbox" of the
\* notebook entry is not 1.0, None included, and then nothing is constructed or
\* cached; when it is 1.0 the property returns the cached test pulse, whose
\* amplitude is "TP Amplitude VC" times 1e-3 in voltage clamp and "TP Amplitude
\* IC" times 1e-12 in current clamp.
C16_InsertedTestPulse ==
    /\ \A r \in DOMAIN recs :
         recs[r].notebook["TP Insert Checkbox"] # 1 =>
            /\ recs[r]._inserted_test_pulse = <<>>
            /\ <<"itp", r[1], r[2]>> \notin DOMAIN computed
    /\ last.op = "inserted_test_pulse" =>
         LET m == LastRec.notebook
         IN  /\ last.result = "ok"
             /\ last.ret = <<>> <=> m["TP Insert Checkbox"] # 1
             /\ last.ret # <<>> =>
                  /\ last.ret = LastRec._inserted_test_pulse
                  /\ last.ret[1].mies_pulse_amplitude =
                        IF m["Clamp Mode"] = 0
                        THEN [raw |-> m["TP Amplitude VC"], scale |-> -3]
                        ELSE [raw |-> m["TP Amplitude IC"], scale |-> -12]

\* the test pulse of a recording in current clamp has been constructed, once, and
\* returned, the primary data of the recording read before
C16_Witness ==
    /\ last.op = "inserted_test_pulse"
    /\ last.ret # <<>>
    /\ LastRec.notebook["Clamp Mode"] = 1
    /\ computed[<<"itp", last.target[1], last.target[2]>>] = 1
    /\ LastRec.primary # <<>>

(***************************************************************************)
(* notebook() on tables of any shape: more or fewer fields than names,     *)
(* more or fewer columns than nine, names missing.                         *)
(***************************************************************************)

\* the largest number of records of such a table
MaxRecsShape == 2

\* keys without a name
Without(keys, name) == SelectSeq(keys, LAMBDA k : k # name)

\* numericalKeys with and without EntrySourceType, and without one of the two
\* names the heuristic of lines 61-64 looks up
ShapeKeys ==
    { KeysOld, KeysNew,
      Without(KeysOld, "TP Peak Resistance"), Without(KeysOld, "TP Pulse Duration") }

\* a record of nf fields and nc columns: the cells that name one of its fields,
\* NaN elsewhere
ShapedRec(keys, nf, nc, cells) ==
    [f \in 1..nf |->
        [c \in 0..(nc - 1) |->
            IF f <= Len(keys) /\ \E t \in cells : t[1] = keys[f] /\ t[2] = c
            THEN (CHOOSE t \in cells : t[1] = keys[f] /\ t[2] = c)[3]
            ELSE NaN]]

ShapeRecs(keys, nf, nc) ==
    {ShapedRec(keys, nf, nc,
               {<<"SweepNum", 0, s>>, <<"EntrySourceType", 0, 0>>,
                <<"TP Peak Resistance", 1, p>>, <<"TP Pulse Duration", 0, 7>>}) :
        s \in {NaN, 1}, p \in {NaN, 5}}

InitShape ==
    /\ InitObjects
    /\ pc = "idle"
    /\ acquisition = {}
    /\ stimulus = {}
    /\ nb_keys \in ShapeKeys
    /\ \E nf \in {Len(nb_keys) - 1, Len(nb_keys), Len(nb_keys) + 1} :
          \E nc \in {GlobalCol, GlobalCol + 1, GlobalCol + 2} :
             \E n \in 1..MaxRecsShape : nb \in [1..n -> ShapeRecs(nb_keys, nf, nc)]

NextShape == Notebook \/ Close \/ Open

SpecShape == InitShape /\ [][NextShape]_vars

\* the shape of the table and the names it has
NumFields == Len(nb[1])
NumCols == Cardinality(Cols(nb[1]))
HasName(name) == nb_fields(nb_keys, name) # 0

\* the table is malformed in one of the ways the claim lists
Malformed ==
    \/ NumCols # GlobalCol + 1
    \/ NumFields # Len(nb_keys)
    \/ /\ ~HasName("EntrySourceType")
       /\ ~HasName("TP Peak Resistance") \/ ~HasName("TP Pulse Duration")

\* C14 as claimed: notebook() on a malformed table raises, returns nothing and
\* caches nothing.
C14_MalformedRaises ==
    (Malformed /\ last.op = "notebook" /\ last.read) =>
        (last.result # "ok" /\ last.ret = <<>> /\ _notebook = <<>>)

\* record 1 is not dropped for its source type: the name is absent, has no row,
\* or the value is NaN or 0
FirstNotExcluded ==
    LET est == nb_fields(nb_keys, "EntrySourceType")
    IN  est = 0 \/ est > NumFields \/ nb[1][est][0] \in {NaN, 0}

\* C14 as amended: whenever notebook() raises it returns nothing and caches
\* nothing; but a malformed table raises only where the decoder uses the missing
\* index or name.  A table with at least nine columns, at least as many fields as
\* names and both test-pulse names decodes without error, to one mapping per
\* column; so does any table none of whose records has a sweep number.  A table
\* of one record that has a sweep number and is not excluded by its source type
\* raises IndexError with fewer than nine columns or fewer fields than names; a
\* table of several records without EntrySourceType and without "TP Peak
\* Resistance" raises KeyError when its first record has a sweep number.
C14_RaisesWhereUsed ==
    (last.op = "notebook" /\ last.read) =>
        /\ last.result # "ok" => (last.ret = <<>> /\ _notebook = <<>>)
        /\ ( /\ NumCols >= GlobalCol + 1
             /\ NumFields >= Len(nb_keys)
             /\ HasName("TP Peak Resistance")
             /\ HasName("TP Pulse Duration") ) =>
              /\ last.result = "ok"
              /\ _notebook # <<>>
              /\ \A s \in Range(_notebook[1].keys) :
                    DOMAIN _notebook[1].val[s] = Cols(nb[1])
        /\ (\A n \in DOMAIN nb : isnan(nb[n][1][0])) =>
              (last.result = "ok" /\ _notebook = <<OD_Empty>>)
        /\ ( /\ Len(nb) = 1
             /\ ~isnan(nb[1][1][0])
             /\ FirstNotExcluded
             /\ NumCols < GlobalCol + 1 \/ NumFields < Len(nb_keys) ) =>
              last.result = "IndexError"
        /\ ( /\ Len(nb) > 1
             /\ ~isnan(nb[1][1][0])
             /\ ~HasName("EntrySourceType")
             /\ ~HasName("TP Peak Resistance") ) =>
              last.result = "KeyError"

\* a table of ten columns and one field more than names, decoded and cached
C14_Witness ==
    /\ last.op = "notebook"
    /\ last.result = "ok"
    /\ NumCols = GlobalCol + 2
    /\ NumFields = Len(nb_keys) + 1
    /\ _notebook # <<>>
    /\ \E s \in Range(_notebook[1].keys) :
          Cardinality(DOMAIN _notebook[1].val[s]) = GlobalCol + 2

\* C15: the value of every sweep id of the decoded notebook holds one mapping per
\* hardware column 0 to 7 and none for the global column 8; every mapping has
\* the field names as its keys and None where the value is NaN.
C15_EightMappings ==
    _notebook # <<>> =>
        \A s \in Range(Decoded.keys) :
            /\ DOMAIN Decoded.val[s] = 0..(GlobalCol - 1)
            /\ \A c \in DOMAIN Decoded.val[s] :
                 /\ DOMAIN Decoded.val[s][c] = Range(nb_keys)
                 /\ \A k \in Range(nb_keys) : ~isnan(Decoded.val[s][c][k])

(***************************************************************************)
(* The classification of the records, on tables of both kinds whose        *)
(* records are test-pulse records of either half of a block.               *)
(***************************************************************************)

MaxRecsClassify == 3

\* a record with a peak resistance or with a pulse duration, of sweep 1, 2 or none
ClassifyRecsOld ==
    {MakeRec(KeysOld, {<<"SweepNum", 0, s>>, <<"TP Peak Resistance", 1, pd[1]>>,
                       <<"TP Pulse Duration", 0, pd[2]>>}) :
        s \in {NaN, 1, 2}, pd \in {<<5, NaN>>, <<NaN, 7>>}}

\* the same of sweep 1 or 2 with a source type: none, sweep (0) or test pulse (1)
ClassifyRecsNew ==
    {MakeRec(KeysNew, {<<"SweepNum", 0, s>>, <<"EntrySourceType", 0, e>>,
                       <<"TP Peak Resistance", 1, pd[1]>>,
                       <<"TP Pulse Duration", 0, pd[2]>>}) :
        s \in {1, 2}, e \in {NaN, 0, 1}, pd \in {<<5, NaN>>, <<NaN, 7>>}}

InitClassify ==
    \E n \in 1..MaxRecsClassify :
        \/ \E table \in [1..n -> ClassifyRecsOld] : InitDecoder(KeysOld, table)
        \/ \E table \in [1..n -> ClassifyRecsNew] : InitDecoder(KeysNew, table)

SpecClassify == InitClassify /\ [][NextNb]_vars

\* record n has no source type to decide by: the field is absent, or NaN
Undecided(n) == ~HasSourceType \/ isnan(SourceType(n))

\* C17: a step of the loop consumes two records, as a test-pulse block, only from
\* a record that is not the last, has a sweep number and no source type to decide
\* by; and when the loop reaches the last record, with a sweep number and not
\* excluded by a non-zero source type, it merges the record, whatever its "TP Peak
\* Resistance".
C17_LastRecordMerged ==
    /\ [][(pc = "loop" /\ i' = i + 2) =>
            (i < Len(nb) /\ ~isnan(SweepOf(i)) /\ Undecided(i)
               /\ PeakFinite(i) /\ DurFinite(i + 1))]_vars
    /\ [][(pc = "loop" /\ i = Len(nb) /\ ~isnan(SweepOf(i))
              /\ (Undecided(i) \/ SourceType(i) = 0)) =>
            (/\ merged' = Append(merged, i)
             /\ OD_Has(nb_entries', SweepOf(i))
             /\ i' = i + 1
             /\ pc' = "loop")]_vars

\* the decoding is over; the last of several records, with a finite peak and no
\* source type to decide by, was merged after the record before it
C17_Witness ==
    /\ pc = "done"
    /\ Len(nb) > 1
    /\ PeakFinite(Len(nb))
    /\ Undecided(Len(nb))
    /\ Len(merged) > 1
    /\ merged[Len(merged)] = Len(nb)
    /\ merged[Len(merged) - 1] = Len(nb) - 1
    /\ OD_Has(Decoded, SweepOf(Len(nb)))

\* the records from k on that survive the classification, as the claim lists it:
\* a sweep number, no exclusion by the source type, not part of a two-record
\* block
RECURSIVE Survivors(_)
Survivors(k) ==
    IF k > Len(nb) THEN {}
    ELSE IF isnan(SweepOf(k)) THEN Survivors(k + 1)
    ELSE IF ~Undecided(k)
         THEN (IF SourceType(k) # 0 THEN Survivors(k + 1) ELSE {k} \cup Survivors(k + 1))
    ELSE IF k < Len(nb) /\ PeakFinite(k) /\ DurFinite(k + 1) THEN Survivors(k + 2)
    ELSE {k} \cup Survivors(k + 1)

\* C20: the keys of the decoded notebook are the sweep numbers of the surviving
\* records, each once: a sweep without a surviving record has no entry, and every
\* entry has a surviving record.
C20_KeysAreSurvivors ==
    /\ pc = "done" =>
         /\ Range(Decoded.keys) = {SweepOf(k) : k \in Survivors(1)}
         /\ Len(Decoded.keys) = Cardinality(Range(Decoded.keys))
    /\ pc = "loop" =>
         Range(nb_entries.keys) = {SweepOf(k) : k \in Survivors(1) \cap 1..(i - 1)}

\* decoded: sweep 1 has an entry, sweep 2 has records, all of them discarded, and
\* no entry
C20_Witness ==
    /\ pc = "done"
    /\ Decoded.keys = <<1>>
    /\ \E k \in DOMAIN nb : SweepOf(k) = 2
    /\ \E j, k \in Survivors(1) : j # k

(***************************************************************************)
(* The handle over open(), close(), __enter__ and __exit__.                *)
(***************************************************************************)

OpenOps == {"open", "__enter__"}
CloseOps == {"close", "__exit__"}

\* C19 as claimed: the handle is there when the last call was the construction,
\* open() or __enter__, and is None when it was close() or __exit__.
C19_HandleFollowsLastCall ==
    /\ last.op \in {"none"} \cup OpenOps => hdf = "File"
    /\ last.op \in CloseOps => hdf = "None"

\* C19 as amended: after construction the handle is there; open() and __enter__
\* that return leave it there, and on an open experiment they change nothing;
\* when the file cannot be opened they raise and the handle stays None; close()
\* and __exit__ leave the handle None, and raise exactly on a closed experiment;
\* none of the four changes a cached slot, and no other call changes the handle.
C19_Lifecycle ==
    /\ [](last.op = "none" => hdf = "File")
    /\ [][ /\ last'.op \in OpenOps =>
                /\ UNCHANGED <<_notebook, _sweeps, recs>>
                /\ hdf # "None" => (last'.result = "ok" /\ UNCHANGED <<hdf, groups_valid>>)
                /\ last'.result = "ok" => hdf' = "File"
                /\ last'.result # "ok" => (hdf = "None" /\ hdf' = "None")
           /\ last'.op \in CloseOps =>
                /\ UNCHANGED <<_notebook, _sweeps, recs>>
                /\ hdf' = "None"
                /\ last'.result = (IF hdf = "None" THEN "AttributeError" ELSE "ok")
           /\ last'.op \notin OpenOps \cup CloseOps => UNCHANGED hdf ]_vars

\* __exit__ has raised on a closed experiment whose notebook and sweep list are
\* cached
C19_Witness ==
    /\ last.op = "__exit__"
    /\ last.result = "AttributeError"
    /\ hdf = "None"
    /\ _notebook # <<>>
    /\ _sweeps # <<>>

====
